---- MODULE Spec2Model ----
(***************************************************************************)
(* A model of 5100_display_undump.py: validate, decode and the main loop   *)
(* that reads each file named on the command line, uppercases its lines,   *)
(* validates them and writes the decoded bytes to standard output.         *)
(*                                                                         *)
(* A character is a one-character string, a line a sequence of characters, *)
(* a file's text a sequence of characters with "\n" as its line break.     *)
(* Bytes are the integers 0..255.                                          *)
(***************************************************************************)
EXTENDS Integers, Sequences, FiniteSets

VARIABLES
  files,    \* sys.argv[1:], the file names in command-line order
  pc,       \* position of main: start, open, validate, write, next, done, error
  idx,      \* 1-based index in files of the file the loop is at
  data,     \* the list data of main / the argument of validate and decode
  verdict,  \* what the last call of validate did: "none" before any call
  blob,     \* what the last call of decode returned: NoBlob before any call
  out,      \* the bytes written to sys.stdout.buffer so far
  log,      \* the warnings logged so far (the logging module, not stdout)
  err,      \* the exception that ended the run, NoError while there is none
  calls,    \* the calls of open, validate and decode made so far, in order
  src       \* the input of a direct application of validate and decode

vars == <<files, pc, idx, data, verdict, blob, out, log, err, calls, src>>

(***************************************************************************)
(* Program constants and the bounds of the model.                          *)
(***************************************************************************)
NumLines == 16
LineLen == 64

MaxFiles == 2
MaxA == 3
MaxB == 2

HexDigits == <<"0", "1", "2", "3", "4", "5", "6", "7",
               "8", "9", "A", "B", "C", "D", "E", "F">>
LowerDigits == <<"0", "1", "2", "3", "4", "5", "6", "7",
                 "8", "9", "a", "b", "c", "d", "e", "f">>
HexSet == {HexDigits[n] : n \in 1..16}
LowerSet == {LowerDigits[n] : n \in 1..16}
Alphabet == HexSet \cup LowerSet \cup {"G", "g", "X", "x"}

Min(m, n) == IF m <= n THEN m ELSE n

(***************************************************************************)
(* str.upper on one character, and on a line.  Every character of the      *)
(* alphabet has a one-character uppercase form.                            *)
(***************************************************************************)
UpperTable ==
  [c \in Alphabet |->
     IF c \in LowerSet THEN HexDigits[CHOOSE n \in 1..16 : LowerDigits[n] = c]
     ELSE IF c = "g" THEN "G"
     ELSE IF c = "x" THEN "X"
     ELSE c]

upperIdentity(l) == l

upper(l) == [i \in 1..Len(l) |-> UpperTable[l[i]]]

(***************************************************************************)
(* str.splitlines on a text whose only line boundary is "\n": the pieces   *)
(* between line breaks, without a last empty piece after a final break.    *)
(***************************************************************************)
splitlines(text) ==
  LET n == Len(text)
      brk == {i \in 1..n : text[i] = "\n"}
      cnt == Cardinality(brk) + (IF n > 0 /\ text[n] # "\n" THEN 1 ELSE 0)
      \* the position of the k-th line break; n + 1 closes an unterminated line
      stop(k) == IF k = 0 THEN 0
                 ELSE IF k > Cardinality(brk) THEN n + 1
                 ELSE CHOOSE p \in brk : Cardinality({q \in brk : q <= p}) = k
  IN  [k \in 1..cnt |-> SubSeq(text, stop(k - 1) + 1, stop(k) - 1)]

(***************************************************************************)
(* validate: the three assertions in order.  The result names the first    *)
(* assertion that fails, or "pass" when none does.                         *)
(***************************************************************************)
validateCharsFirst(filename, d) ==
  IF Len(d) # NumLines THEN "LineCount"
  ELSE IF \E k \in 1..Len(d) : \E i \in 1..Len(d[k]) : d[k][i] \notin HexSet
    THEN "CharSet"
  ELSE IF \E k \in 1..Len(d) : Len(d[k]) # LineLen THEN "LineLength"
  ELSE "pass"

validateAtMost(filename, d) ==
  IF Len(d) # NumLines THEN "LineCount"
  ELSE IF \E k \in 1..Len(d) : Len(d[k]) > LineLen THEN "LineLength"
  ELSE IF \E k \in 1..Len(d) : \E i \in 1..Len(d[k]) : d[k][i] \notin HexSet
    THEN "CharSet"
  ELSE "pass"

validate(filename, d) ==
  IF Len(d) # NumLines THEN "LineCount"
  ELSE IF \E k \in 1..Len(d) : Len(d[k]) # LineLen THEN "LineLength"
  ELSE IF \E k \in 1..Len(d) : \E i \in 1..Len(d[k]) : d[k][i] \notin HexSet
    THEN "CharSet"
  ELSE "pass"

(***************************************************************************)
(* decode and what it is made of.                                          *)
(***************************************************************************)
RECURSIVE join(_)
join(ls) == IF ls = <<>> THEN <<>> ELSE Head(ls) \o join(Tail(ls))

\* data[::2] and data[1::2]
evens(d) == [k \in 1..((Len(d) + 1) \div 2) |-> d[2 * k - 1]]
odds(d) == [k \in 1..(Len(d) \div 2) |-> d[2 * k]]

\* itertools.chain.from_iterable(zip(t, b)): zip stops at the shorter one
interleave(t, b) ==
  [i \in 1..(2 * Min(Len(t), Len(b))) |->
     IF i % 2 = 1 THEN t[(i + 1) \div 2] ELSE b[i \div 2]]

\* int(c, 16) of a hex digit of either case
HexVal ==
  [c \in HexSet \cup LowerSet |->
     CHOOSE n \in 0..15 : HexDigits[n + 1] = c \/ LowerDigits[n + 1] = c]

\* bytes.fromhex on a string without whitespace: ValueError on an odd number
\* of digits or a character that is no hex digit
fromhex(h) ==
  IF Len(h) % 2 = 1 \/ \E i \in 1..Len(h) : h[i] \notin DOMAIN HexVal
  THEN [ok |-> FALSE, bytes |-> <<>>]
  ELSE [ok |-> TRUE,
        bytes |-> [i \in 1..(Len(h) \div 2) |->
                     16 * HexVal[h[2 * i - 1]] + HexVal[h[2 * i]]]]

decodeSwapped(d) == fromhex(interleave(join(odds(d)), join(evens(d))))

decodeOffByOne(d) == fromhex(interleave(join(evens(d)), join(odds(Tail(d)))))

decode(d) ==
  LET top_rows == join(evens(d))
      bot_rows == join(odds(d))
      all_hex == interleave(top_rows, bot_rows)
  IN  fromhex(all_hex)

(***************************************************************************)
(* The inputs.  A 512-byte sequence is drawn by its parameters a and b, and *)
(* laid out on the screen by Encode: the high digit of byte i at position i *)
(* of the top lines, its low digit at position i of the bottom lines, the  *)
(* top and bottom strings cut into lines at the even and odd line indices. *)
(* A kind then says how the transcription deviates from that layout.       *)
(***************************************************************************)
BlobLen == (NumLines * LineLen) \div 2

GenBytes(a, b) ==
  [i \in 1..BlobLen |->
     (a * 53 + (2 * b + 1) * i + 3 * ((i - 1) \div 32) + 7 * ((i - 1) \div 64)) % 256]

Encode(bytes) ==
  [k \in 1..NumLines |->
     [j \in 1..LineLen |->
        LET i == LineLen * ((k - 1) \div 2) + j
        IN  IF k % 2 = 1 THEN HexDigits[(bytes[i] \div 16) + 1]
            ELSE HexDigits[(bytes[i] % 16) + 1]]]

\* the first line pair of the worked example: AB00...0 over CD00...0
AbcdLines ==
  [k \in 1..NumLines |->
     [j \in 1..LineLen |->
        IF k = 1 /\ j = 1 THEN "A" ELSE IF k = 1 /\ j = 2 THEN "B"
        ELSE IF k = 2 /\ j = 1 THEN "C" ELSE IF k = 2 /\ j = 2 THEN "D"
        ELSE "0"]]

LowerTable ==
  [c \in HexSet |-> LowerDigits[CHOOSE n \in 1..16 : HexDigits[n] = c]]

ValidKinds == {"upper", "lower", "mixed", "abcd", "nonl"}
CountKinds == {"lines15", "lines17", "multi15", "empty"}
LengthKinds == {"len63", "len65", "len63G"}
CharKinds == {"charG", "charX", "charx", "charg"}
Kinds == ValidKinds \cup CountKinds \cup LengthKinds \cup CharKinds

\* where a kind puts its defect
BadLine(a, b) == ((5 * a + 3 * b) % NumLines) + 1
BadCol(a, b) == ((11 * a + 29 * b) % (LineLen - 1)) + 1

Lines(d) ==
  LET good == Encode(GenBytes(d.a, d.b))
      bl == BadLine(d.a, d.b)
      bc == BadCol(d.a, d.b)
      short == [good EXCEPT ![bl] = SubSeq(@, 1, LineLen - 1)]
  IN  CASE d.kind \in {"upper", "nonl"} -> good
        [] d.kind = "lower" ->
             [k \in 1..NumLines |-> [j \in 1..LineLen |-> LowerTable[good[k][j]]]]
        [] d.kind = "mixed" ->
             [k \in 1..NumLines |->
                [j \in 1..LineLen |->
                   IF (j + k) % 2 = 0 THEN LowerTable[good[k][j]] ELSE good[k][j]]]
        [] d.kind = "abcd" -> AbcdLines
        [] d.kind = "lines15" -> SubSeq(good, 1, NumLines - 1)
        [] d.kind = "lines17" -> Append(good, good[bl])
        [] d.kind = "empty" -> <<>>
        [] d.kind = "len63" -> short
        [] d.kind = "len65" -> [good EXCEPT ![bl] = Append(@, "0")]
        [] d.kind = "charG" -> [good EXCEPT ![bl][bc] = "G"]
        [] d.kind = "charX" -> [good EXCEPT ![bl][bc] = "X"]
        [] d.kind = "charx" -> [good EXCEPT ![bl][bc] = "x"]
        [] d.kind = "charg" -> [good EXCEPT ![bl][bc] = "g"]
        [] d.kind = "len63G" -> [short EXCEPT ![bl][bc] = "G"]
        [] d.kind = "multi15" ->
             LET s == SubSeq(good, 1, NumLines - 1)
                 l == Min(bl, NumLines - 1)
             IN  [s EXCEPT ![l] = [SubSeq(@, 1, LineLen - 1) EXCEPT ![bc] = "G"]]

\* the text of the file holding a transcription: its lines, each ended by a
\* line break, the last one too unless the kind is "nonl"
FileText(d) ==
  LET ls == Lines(d)
      withBreaks == join([k \in 1..Len(ls) |-> Append(ls[k], "\n")])
  IN  IF d.kind = "nonl" /\ Len(withBreaks) > 0
      THEN SubSeq(withBreaks, 1, Len(withBreaks) - 1)
      ELSE withBreaks

\* the bytes the screen of a well-formed transcription shows
Shown(d) == IF d.kind = "abcd" THEN [i \in 1..BlobLen |->
                                       IF i = 1 THEN 172 ELSE IF i = 2 THEN 189 ELSE 0]
            ELSE GenBytes(d.a, d.b)

(***************************************************************************)
(* The run of main over the files of the command line.  A file name is the *)
(* description of the transcription the file holds; a name of kind         *)
(* "missing" names no file.                                                *)
(***************************************************************************)
NoBlob == [ok |-> FALSE, bytes |-> <<"none">>]
NoError == [type |-> "none", file |-> 0, msg |-> ""]
NoSrc == [a |-> 0, b |-> 0, kind |-> "none"]
NoFilesWarning == "No files listed on commandline: output is empty."

RunKinds == {"upper", "lower", "mixed", "abcd", "nonl",
             "lines17", "len63", "charx", "charg", "missing"}
RunFiles == {[a |-> 0, b |-> 0, kind |-> k] : k \in RunKinds}
              \cup {[a |-> 1, b |-> 1, kind |-> "upper"]}

Init ==
  /\ files \in UNION {[1..n -> RunFiles] : n \in 0..MaxFiles}
  /\ pc = "start"
  /\ idx = 0
  /\ data = <<>>
  /\ verdict = "none"
  /\ blob = NoBlob
  /\ out = <<>>
  /\ log = <<>>
  /\ err = NoError
  /\ calls = <<>>
  /\ src = NoSrc

\* if not files: logging.warning(...), then the for loop is entered
MainStartNoWarning ==
  /\ pc = "start"
  /\ log' = log
  /\ IF files = <<>> THEN pc' = "done" /\ idx' = idx
                     ELSE pc' = "open" /\ idx' = 1
  /\ UNCHANGED <<files, data, verdict, blob, out, err, calls, src>>

MainStart ==
  /\ pc = "start"
  /\ log' = IF files = <<>> THEN Append(log, NoFilesWarning) ELSE log
  /\ IF files = <<>> THEN pc' = "done" /\ idx' = idx
                     ELSE pc' = "open" /\ idx' = 1
  /\ UNCHANGED <<files, data, verdict, blob, out, err, calls, src>>

\* with open(filename, 'r') as f: data = [l.upper() for l in f.read().splitlines()]
MainOpen ==
  /\ pc = "open"
  /\ calls' = Append(calls, [fn |-> "open", file |-> idx])
  /\ verdict' = "none"
  /\ blob' = NoBlob
  /\ IF files[idx].kind = "missing"
     THEN /\ pc' = "error"
          /\ err' = [type |-> "FileNotFoundError", file |-> idx, msg |-> ""]
          /\ data' = data
     ELSE /\ pc' = "validate"
          /\ data' = LET ls == splitlines(FileText(files[idx]))
                     IN  [k \in 1..Len(ls) |-> upper(ls[k])]
          /\ err' = err
  /\ UNCHANGED <<files, idx, out, log, src>>

\* validate(filename, data): a failed assertion propagates out of main
MainValidateSkip ==
  /\ pc = "validate"
  /\ calls' = Append(calls, [fn |-> "validate", file |-> idx])
  /\ verdict' = validate(files[idx], data)
  /\ pc' = IF verdict' = "pass" THEN "write" ELSE "next"
  /\ UNCHANGED <<files, idx, data, blob, out, log, err, src>>

MainValidate ==
  /\ pc = "validate"
  /\ calls' = Append(calls, [fn |-> "validate", file |-> idx])
  /\ verdict' = validate(files[idx], data)
  /\ IF verdict' = "pass"
     THEN pc' = "write" /\ err' = err
     ELSE /\ pc' = "error"
          /\ err' = [type |-> "AssertionError", file |-> idx, msg |-> verdict']
  /\ UNCHANGED <<files, idx, data, blob, out, log, src>>

\* sys.stdout.buffer.write(decode(data)): a ValueError of bytes.fromhex
\* propagates out of main before anything is written
MainWritePrepend ==
  /\ pc = "write"
  /\ calls' = Append(calls, [fn |-> "decode", file |-> idx])
  /\ blob' = decode(data)
  /\ IF blob'.ok
     THEN pc' = "next" /\ out' = blob'.bytes \o out /\ err' = err
     ELSE /\ pc' = "error"
          /\ out' = out
          /\ err' = [type |-> "ValueError", file |-> idx, msg |-> ""]
  /\ UNCHANGED <<files, idx, data, verdict, log, src>>

MainWrite ==
  /\ pc = "write"
  /\ calls' = Append(calls, [fn |-> "decode", file |-> idx])
  /\ blob' = decode(data)
  /\ IF blob'.ok
     THEN pc' = "next" /\ out' = out \o blob'.bytes /\ err' = err
     ELSE /\ pc' = "error"
          /\ out' = out
          /\ err' = [type |-> "ValueError", file |-> idx, msg |-> ""]
  /\ UNCHANGED <<files, idx, data, verdict, log, src>>

\* the file is closed and the for loop takes the next file name, or ends
MainNext ==
  /\ pc = "next"
  /\ IF idx < Len(files) THEN pc' = "open" /\ idx' = idx + 1
                         ELSE pc' = "done" /\ idx' = idx
  /\ UNCHANGED <<files, data, verdict, blob, out, log, err, calls, src>>

Next == MainStart \/ MainOpen \/ MainValidate \/ MainWrite \/ MainNext

Spec == Init /\ [][Next]_vars

(***************************************************************************)
(* validate and decode applied directly to a transcription, well-formed or *)
(* not, drawn from the bounded family of inputs.                           *)
(***************************************************************************)
Inputs == {[a |-> a, b |-> b, kind |-> k] : a \in 0..MaxA, b \in 0..MaxB, k \in Kinds}

InitPure ==
  /\ src \in Inputs
  /\ data = Lines(src)
  /\ pc = "input"
  /\ files = <<>>
  /\ idx = 0
  /\ verdict = "none"
  /\ blob = NoBlob
  /\ out = <<>>
  /\ log = <<>>
  /\ err = NoError
  /\ calls = <<>>

ApplyValidate ==
  /\ pc = "input"
  /\ verdict' = validate(src, data)
  /\ pc' = "validated"
  /\ UNCHANGED <<files, idx, data, blob, out, log, err, calls, src>>

ApplyDecode ==
  /\ pc = "validated"
  /\ blob' = decode(data)
  /\ pc' = "decoded"
  /\ UNCHANGED <<files, idx, data, verdict, out, log, err, calls, src>>

NextPure == ApplyValidate \/ ApplyDecode

SpecPure == InitPure /\ [][NextPure]_vars

(***************************************************************************)
(* What the claims are stated with.                                        *)
(***************************************************************************)
\* a valid transcription: 16 lines of 64 uppercase hex digits
WellFormed(d) ==
  /\ Len(d) = NumLines
  /\ \A k \in 1..Len(d) : Len(d[k]) = LineLen
  /\ \A k \in 1..Len(d) : \A i \in 1..Len(d[k]) : d[k][i] \in HexSet

\* character i (from 1) of the concatenated top lines and of the bottom lines
TopAt(d, i) == d[2 * ((i - 1) \div LineLen) + 1][((i - 1) % LineLen) + 1]
BotAt(d, i) == d[2 * ((i - 1) \div LineLen) + 2][((i - 1) % LineLen) + 1]

Byte(hi, lo) == 16 * HexVal[hi] + HexVal[lo]

C2_HalfwordBigEndian ==
  (pc = "decoded" /\ WellFormed(data)) =>
    /\ blob.ok
    /\ \A r \in 0..((NumLines \div 2) - 1) : \A k \in 0..((LineLen \div 2) - 1) :
         LET off == 2 * ((LineLen \div 2) * r + k)
         IN  /\ blob.bytes[off + 1] =
                  Byte(data[2 * r + 1][2 * k + 1], data[2 * r + 1][2 * k + 2])
             /\ blob.bytes[off + 2] =
                  Byte(data[2 * r + 2][2 * k + 1], data[2 * r + 2][2 * k + 2])

\* C3: for every transcription that passes validate, decode returns without
\* failure exactly 512 bytes, half the character count of the transcription.
C3_Length ==
  (pc = "decoded" /\ verdict = "pass") =>
    /\ blob.ok
    /\ Len(blob.bytes) = BlobLen
    /\ BlobLen = 512
    /\ 2 * Len(blob.bytes) = Len(join(data))

C3_Witness ==
  /\ pc = "decoded"
  /\ verdict = "pass"
  /\ src.kind = "upper"
  /\ blob.ok
  /\ Len(blob.bytes) = 512

\* C4: the layout of any 512 bytes (Encode) passes validate and decodes back
\* to the same bytes, and every valid transcription is the layout of the
\* bytes it decodes to: decode is a bijection.
C4_RoundTrip ==
  /\ (src.kind = "upper" /\ pc # "input") => verdict = "pass"
  /\ (src.kind = "upper" /\ pc = "decoded") =>
       blob.ok /\ blob.bytes = GenBytes(src.a, src.b)
  /\ (pc = "decoded" /\ WellFormed(data)) =>
       blob.ok /\ Encode(blob.bytes) = data

C4_Witness ==
  /\ pc = "decoded"
  /\ src = [a |-> 1, b |-> 1, kind |-> "upper"]
  /\ data = Encode(GenBytes(1, 1))
  /\ blob.bytes = GenBytes(1, 1)

C10_FirstViolation ==
  pc \in {"validated", "decoded"} =>
    LET badCount == Len(data) # NumLines
        badLength == \E k \in 1..Len(data) : Len(data[k]) # LineLen
        badChar == \E k \in 1..Len(data) : \E i \in 1..Len(data[k]) :
                      data[k][i] \notin HexSet
    IN  /\ verdict = "LineCount" <=> badCount
        /\ verdict = "LineLength" <=> (~badCount /\ badLength)
        /\ verdict = "CharSet" <=> (~badCount /\ ~badLength /\ badChar)
        /\ src.kind = "multi15" => (badLength /\ badChar /\ verdict = "LineCount")
        /\ src.kind = "len63G" => (badChar /\ verdict = "LineLength")

C10_Witness ==
  /\ pc = "validated"
  /\ src.kind = "len63G"
  /\ \E k \in 1..Len(data) : Len(data[k]) = 63 /\ \E i \in 1..63 : data[k][i] = "G"
  /\ verdict = "LineLength"

(***************************************************************************)
(* The claims about the run of main.                                       *)
(***************************************************************************)
\* a file that holds a valid transcription once its letters are uppercased
Processable(f) == f.kind \in ValidKinds

\* a file that is there and holds no valid transcription
Malformed(f) == f.kind \notin ValidKinds \cup {"missing"}

\* the number of files whose bytes main has written
Written == IF pc \in {"next", "done"} THEN idx
           ELSE IF idx > 0 THEN idx - 1 ELSE 0

\* the bytes the screens of the first n files show, one after the other
RECURSIVE ShownBy(_)
ShownBy(n) == IF n = 0 THEN <<>> ELSE ShownBy(n - 1) \o Shown(files[n])

\* the calls a run over valid files makes: open, validate, decode per file
CallOrder == <<"open", "validate", "decode">>
CallsInOrder ==
  \A c \in 1..Len(calls) :
    calls[c] = [fn |-> CallOrder[((c - 1) % 3) + 1], file |-> ((c - 1) \div 3) + 1]

\* C6: when file k is the first to fail validation the run halts in an error
\* state: decode is never applied to file k, no later file is opened,
\* validated or decoded, and the output is exactly the blobs of files 1..k-1.
C6_FailFast ==
  /\ \A j \in 1..Len(files) :
       Malformed(files[j]) =>
         (idx < j \/ (idx = j /\ pc \in {"open", "validate", "error"}))
  /\ (pc = "error" /\ err.type = "AssertionError") =>
       /\ err.file = idx
       /\ Malformed(files[idx])
       /\ \A j \in 1..(idx - 1) : Processable(files[j])
       /\ out = ShownBy(idx - 1)
       /\ \A c \in 1..Len(calls) :
            /\ calls[c].file <= idx
            /\ ~(calls[c].fn = "decode" /\ calls[c].file = idx)
       /\ ~ENABLED Next

C6_Witness ==
  /\ pc = "error"
  /\ err.type = "AssertionError"
  /\ idx = 2
  /\ files[1].kind = "abcd"
  /\ out = Shown(files[1])
  /\ calls = <<[fn |-> "open", file |-> 1], [fn |-> "validate", file |-> 1],
               [fn |-> "decode", file |-> 1], [fn |-> "open", file |-> 2],
               [fn |-> "validate", file |-> 2]>>

\* C7: over n valid files each file is validated, decoded and written before
\* the next is opened; the output is at every moment the blobs of a prefix
\* of the file list, in order, and at the end all n of them, 512*n bytes.
C7_Concatenation ==
  (\A j \in 1..Len(files) : Processable(files[j])) =>
    /\ pc # "error"
    /\ out = ShownBy(Written)
    /\ Len(out) = 512 * Written
    /\ CallsInOrder
    /\ pc = "done" => Written = Len(files)

C7_Witness ==
  /\ pc = "done"
  /\ Len(files) = 2
  /\ files[1].kind = "upper"
  /\ files[2].kind = "abcd"
  /\ Len(out) = 1024
  /\ out[513] = 172
  /\ out = Shown(files[1]) \o Shown(files[2])

\* C8: a run with no files logs a warning, writes nothing to standard
\* output, never calls validate or decode and ends without an error.
C8_NoFiles ==
  files = <<>> =>
    /\ pc \in {"start", "done"}
    /\ out = <<>>
    /\ calls = <<>>
    /\ err = NoError
    /\ pc = "done" => log = <<NoFilesWarning>>

C8_Witness ==
  /\ files = <<>>
  /\ pc = "done"
  /\ log = <<NoFilesWarning>>
  /\ out = <<>>

\* the output of decode for the file of the same bytes written in uppercase
UppercaseTwinBlob(f) ==
  decode(splitlines(FileText([f EXCEPT !.kind = "upper"])))

IsLowerLetter(c) == c \in (LowerSet \ HexSet) \cup {"g", "x"}

\* C9: a file whose digits a-f are in lower or mixed case is accepted, its
\* lines being uppercased before validate is called, and its output is that
\* of the same file in uppercase; a file with an x or a g is still rejected.
C9_CaseInsensitive ==
  idx >= 1 =>
    LET f == files[idx]
    IN  /\ (pc = "validate") =>
             \A k \in 1..Len(data) : \A i \in 1..Len(data[k]) :
               ~IsLowerLetter(data[k][i])
        /\ f.kind \in {"lower", "mixed"} =>
             /\ pc # "error"
             /\ pc \in {"write", "next"} => verdict = "pass"
             /\ pc = "next" => blob = UppercaseTwinBlob(f)
        /\ (f.kind \in {"charx", "charg"} /\ pc \notin {"open", "validate"}) =>
             /\ pc = "error"
             /\ err = [type |-> "AssertionError", file |-> idx, msg |-> "CharSet"]

C9_Witness ==
  /\ pc = "next"
  /\ files[idx].kind = "lower"
  /\ \E k \in 1..NumLines : \E i \in 1..LineLen :
       IsLowerLetter(Lines(files[idx])[k][i])
  /\ blob.ok
  /\ blob.bytes = Shown(files[idx])

====
